---- MODULE Spec2Model ----
(***************************************************************************)
(* Reconstruction of a shared secret from encoded shares                   *)
(* (src/interpolate.go): decoding of the share records of a document,      *)
(* selection of k points by ascending x, and Lagrange interpolation at     *)
(* x = 0 in exact rational arithmetic.                                     *)
(*                                                                         *)
(* A Go string is modelled as the sequence of its characters, each a       *)
(* one-character TLA+ string, so that every parse is computed character    *)
(* by character as the library does it.                                    *)
(***************************************************************************)
EXTENDS Integers, Sequences, FiniteSets, TLC

VARIABLES doc, pc, k, order, points, pointsToUse, i, secretRat, result,
          status, secret, run, firstOutcome, poly

vars == <<doc, pc, k, order, points, pointsToUse, i, secretRat, result,
          status, secret, run, firstOutcome, poly>>

----------------------------------------------------------------------------
(* Bounds of the model *)

\* Largest number of share records in a document.
MaxShares == 2

\* Largest threshold k a document declares.
MaxK == 2

\* Direct k-point calls of the engine: largest number of points, largest x,
\* largest polynomial coefficient (coefficients range over -1 .. MaxCoef).
MaxPts == 4
MaxX == 4
MaxCoef == 1

----------------------------------------------------------------------------
(* Characters and digit values *)

DecDigits == <<"0","1","2","3","4","5","6","7","8","9">>
LowerLetters == <<"a","b","c","d","e","f","g","h","i","j","k","l","m",
                  "n","o","p","q","r","s","t","u","v","w","x","y","z">>
UpperLetters == <<"A","B","C","D","E","F","G","H","I","J","K","L","M",
                  "N","O","P","Q","R","S","T","U","V","W","X","Y","Z">>

\* Position of ch in the sequence s, 0 when absent.
IndexOf(ch, s) ==
    IF \E n \in 1..Len(s) : s[n] = ch
    THEN CHOOSE n \in 1..Len(s) : s[n] = ch
    ELSE 0

IsDecDigit(ch) == IndexOf(ch, DecDigits) > 0

\* math/big: the largest base SetString accepts, and the largest base in
\* which upper and lower case letters are the same digit.
MaxBase == 62
maxBaseSmall == 36

\* nat.scan's digit value d1 of a character in base b; MaxBase + 1 for a
\* character that is no digit at all.
DigitVal(ch, b) ==
    IF IndexOf(ch, DecDigits) > 0 THEN IndexOf(ch, DecDigits) - 1
    ELSE IF IndexOf(ch, LowerLetters) > 0 THEN IndexOf(ch, LowerLetters) + 9
    ELSE IF IndexOf(ch, UpperLetters) > 0
         THEN IF b <= maxBaseSmall
              THEN IndexOf(ch, UpperLetters) + 9
              ELSE IndexOf(ch, UpperLetters) + maxBaseSmall - 1
    ELSE MaxBase + 1

----------------------------------------------------------------------------
(* strconv.ParseInt(key, 10, 64) and strconv.Atoi *)

\* The value of a sequence of decimal digits, left to right.
RECURSIVE DecimalValue(_, _)
DecimalValue(s, acc) ==
    IF s = <<>> THEN acc
    ELSE DecimalValue(Tail(s), acc * 10 + (IndexOf(Head(s), DecDigits) - 1))

\* ParseInt in base 10: an optional sign, then one or more decimal digits;
\* anything else is a syntax error.  (The 64-bit range error needs a key of
\* 19 digits or more.)
ParseInt(s) ==
    LET signed == s # <<>> /\ Head(s) \in {"+", "-"}
        body   == IF signed THEN Tail(s) ELSE s
        good   == body # <<>> /\ \A n \in 1..Len(body) : IsDecDigit(body[n])
        mag    == IF good THEN DecimalValue(body, 0) ELSE 0
    IN  [ok  |-> good,
         val |-> IF signed /\ Head(s) = "-" THEN 0 - mag ELSE mag]

\* Atoi gives ParseInt(s, 10, 0)'s result.
Atoi(s) == ParseInt(s)

----------------------------------------------------------------------------
(* big.Int.SetString(value, base) *)

\* The digit loop of nat.scan from position p of r, in actual base b, the
\* base argument being `base`: underscores separate digits only when the
\* base argument is 0; the first character that is no digit of b ends the
\* number and is left unread.
RECURSIVE ScanDigits(_, _, _, _, _, _, _, _)
ScanDigits(r, p, b, base, acc, count, prev, invalSep) ==
    IF p > Len(r)
    THEN [acc |-> acc, count |-> count, prev |-> prev,
          invalSep |-> invalSep, next |-> p]
    ELSE IF r[p] = "_" /\ base = 0
    THEN ScanDigits(r, p + 1, b, base, acc, count, "_",
                    invalSep \/ prev # "0")
    ELSE IF DigitVal(r[p], b) >= b
    THEN [acc |-> acc, count |-> count, prev |-> prev,
          invalSep |-> invalSep, next |-> p]
    ELSE ScanDigits(r, p + 1, b, base, acc * b + DigitVal(r[p], b),
                    count + 1, "0", invalSep)

\* nat.scan(r, base, fracOk = false) on the characters after the sign:
\* with base 0 the actual base is 10 unless a prefix 0b, 0o, 0x or 0
\* selects 2, 8, 16 or 8.
natScan(r, base) ==
    LET zero   == base = 0 /\ Len(r) >= 1 /\ r[1] = "0"
        second == zero /\ Len(r) >= 2
        prefix == IF ~second THEN "none"
                  ELSE IF r[2] \in {"b", "B"} THEN "b"
                  ELSE IF r[2] \in {"o", "O"} THEN "o"
                  ELSE IF r[2] \in {"x", "X"} THEN "x"
                  ELSE "0"
        b      == IF base # 0 THEN base
                  ELSE IF prefix = "b" THEN 2
                  ELSE IF prefix \in {"o", "0"} THEN 8
                  ELSE IF prefix = "x" THEN 16
                  ELSE 10
        start  == IF ~zero THEN 1
                  ELSE IF prefix \in {"b", "o", "x"} THEN 3
                  ELSE 2
        count0 == IF zero /\ prefix = "none" THEN 1 ELSE 0
        prev0  == IF zero THEN "0" ELSE "."
        d      == ScanDigits(r, start, b, base, 0, count0, prev0, FALSE)
        sepErr == d.invalSep \/ d.prev = "_"
    IN  [err  |-> sepErr \/ (d.count = 0 /\ prefix # "0"),
         val  |-> d.acc,
         next |-> d.next]

\* nat.scan panics on a base that is neither 0 nor in 2 .. MaxBase.
baseOk(base) == base = 0 \/ (2 <= base /\ base <= MaxBase)

\* SetString: scanSign (an empty string fails before the base is looked
\* at), nat.scan, then the whole string must have been consumed.
\* kind is "ok" (val is the integer), "fail" (success = false) or "panic".
SetString(s, base) ==
    IF s = <<>> THEN [kind |-> "fail", val |-> 0]
    ELSE
    LET signed == Head(s) \in {"+", "-"}
        r      == IF signed THEN Tail(s) ELSE s
    IN  IF ~baseOk(base) THEN [kind |-> "panic", val |-> 0]
        ELSE LET n == natScan(r, base)
             IN  IF n.err \/ n.next <= Len(r)
                 THEN [kind |-> "fail", val |-> 0]
                 ELSE [kind |-> "ok",
                       val  |-> IF signed /\ Head(s) = "-" THEN 0 - n.val
                                ELSE n.val]

----------------------------------------------------------------------------
(* big.Rat: a numerator and a positive denominator in lowest terms *)

Abs(n) == IF n < 0 THEN 0 - n ELSE n

RECURSIVE GCD(_, _)
GCD(a, b) == IF b = 0 THEN a ELSE GCD(b, a % b)

\* big.Rat's normal form of n/d (d # 0).
RatNorm(n, d) ==
    LET g == GCD(Abs(n), Abs(d))
        s == IF d < 0 THEN 0 - 1 ELSE 1
    IN  [num |-> s * (n \div g), den |-> s * (d \div g)]

RatSetInt(n) == [num |-> n, den |-> 1]
RatMul(a, b) == RatNorm(a.num * b.num, a.den * b.den)
RatSub(a, b) == RatNorm(a.num * b.den - b.num * a.den, a.den * b.den)
RatAdd(a, b) == RatNorm(a.num * b.den + b.num * a.den, a.den * b.den)
\* Quo panics on a zero divisor; the caller looks at b.num first.
RatQuo(a, b) == RatNorm(a.num * b.den, a.den * b.num)
RatIsInt(a)  == a.den = 1
RatNum(a)    == a.num

----------------------------------------------------------------------------
(* lagrangeInterpolateAtZero: the inner loop over j for one i (0-based as *)
(* in the source; pts[n + 1] is points[n])                                 *)

\* numerator after the inner loop: the product of x_j, j # i.
RECURSIVE NumeratorFrom(_, _, _)
NumeratorFrom(pts, ii, j) ==
    IF j >= Len(pts) THEN RatSetInt(1)
    ELSE IF j = ii THEN NumeratorFrom(pts, ii, j + 1)
    ELSE RatMul(RatSetInt(pts[j + 1].X), NumeratorFrom(pts, ii, j + 1))

\* The factor diff of the denominator for the pair (i, j).
Diff(xi, xj) == RatSub(RatSetInt(xi), RatSetInt(xj))

\* denominator after the inner loop: the product of the diffs, j # i.
RECURSIVE DenominatorFrom(_, _, _)
DenominatorFrom(pts, ii, j) ==
    IF j >= Len(pts) THEN RatSetInt(1)
    ELSE IF j = ii THEN DenominatorFrom(pts, ii, j + 1)
    ELSE RatMul(Diff(pts[ii + 1].X, pts[j + 1].X),
                DenominatorFrom(pts, ii, j + 1))

\* term = y_i * (numerator / denominator), for a non-zero denominator.
LagrangeTerm(pts, ii) ==
    RatMul(RatSetInt(pts[ii + 1].Y),
           RatQuo(NumeratorFrom(pts, ii, 0), DenominatorFrom(pts, ii, 0)))

\* The integer test left out: every total passes.
IntegerCheckOff(total) == TRUE

\* The check before the return: the total must be an integer.
IntegerCheck(total) == RatIsInt(total)

\* One pass of the outer loop: Quo panics when the denominator is zero,
\* otherwise the term is added to the running total.
EngineStep(pts, ii, total) ==
    IF DenominatorFrom(pts, ii, 0).num = 0
    THEN [panic |-> TRUE, total |-> total]
    ELSE [panic |-> FALSE, total |-> RatAdd(total, LagrangeTerm(pts, ii))]

----------------------------------------------------------------------------
(* The input document: rawData after the top-level json.Unmarshal *)

\* Share keys of the documents explored.
DocKeys == { <<"1">>, <<"3">>, <<"0","1">>, <<"x">> }

\* Share records of the documents explored.  obj is whether the raw value
\* unmarshals into { "base": string, "value": string }.
Rec(b, v) == [obj |-> TRUE, base |-> b, value |-> v]
Contents ==
    { Rec(<<"1","0">>, <<"1">>),
      Rec(<<"1","0">>, <<"2">>),
      Rec(<<"1","6">>, <<"f","F">>),
      Rec(<<"1","0">>, <<"-","5">>),
      Rec(<<"2">>,     <<"1","2">>),
      Rec(<<"0">>,     <<"1","2">>),
      Rec(<<"1">>,     <<"1">>),
      Rec(<<"x">>,     <<"1">>),
      [obj |-> FALSE, base |-> <<>>, value |-> <<>>] }

\* The "keys" entry: absent from the document, an object without "k"
\* (K keeps its zero value), or an object with an integer k.
KeysEntries ==
    { [kind |-> "absent", k |-> 0], [kind |-> "empty", k |-> 0] }
        \cup { [kind |-> "k", k |-> n] : n \in (0 - 1)..MaxK }

\* The sets of keys a document may hold.
KeySets == { T \in SUBSET DocKeys : Cardinality(T) <= MaxShares }

----------------------------------------------------------------------------
(* main: decoding one share record (one pass of the range loop) *)

\* The record under a key that parsed as x (lines 108-129): kind "fatal"
\* when log.Fatalf or a panic ends the run with `status`, kind "point"
\* when the decoded point is appended.
DecodeContent(x, rec) ==
    LET none == [X |-> 0, Y |-> 0]
    IN  IF ~rec.obj
        THEN [kind |-> "fatal", status |-> "InvalidRecord", pt |-> none]
        ELSE IF ~Atoi(rec.base).ok
        THEN [kind |-> "fatal", status |-> "InvalidBase", pt |-> none]
        ELSE LET yVal == SetString(rec.value, Atoi(rec.base).val)
             IN  IF yVal.kind = "panic"
                 THEN [kind |-> "fatal", status |-> "PanicBase", pt |-> none]
                 ELSE IF yVal.kind = "fail"
                 THEN [kind |-> "fatal", status |-> "InvalidDigit",
                       pt |-> none]
                 ELSE [kind |-> "point", status |-> "running",
                       pt |-> [X |-> x, Y |-> yVal.val]]

\* A key that is no integer ends the run instead of being skipped.
DecodeShareStrict(key, rec) ==
    IF ~ParseInt(key).ok
    THEN [kind |-> "fatal", status |-> "InvalidIndex",
          pt |-> [X |-> 0, Y |-> 0]]
    ELSE DecodeContent(ParseInt(key).val, rec)

\* One pass of the range loop: kind "skip" when the key is no integer (a
\* warning is logged and the loop continues), else the record is decoded.
DecodeShare(key, rec) ==
    IF ~ParseInt(key).ok
    THEN [kind |-> "skip", status |-> "running", pt |-> [X |-> 0, Y |-> 0]]
    ELSE DecodeContent(ParseInt(key).val, rec)

\* DecodeShare on every record the documents explored can hold, computed
\* once.
DecodeTable == [key \in DocKeys, rec \in Contents |-> DecodeShare(key, rec)]

----------------------------------------------------------------------------
(* main: sort.Slice by X, the threshold check and the slice points[:k] *)

\* The comparison turned around: a descending sort.
GreaterByX(a, b) == a.X > b.X

\* The less function handed to sort.Slice.
LessByX(a, b) == a.X < b.X

\* sort.Slice on fewer than 12 elements is an insertion sort: an element
\* moves left past the elements it is less than, so equal X keep their
\* order of arrival.
RECURSIVE InsertByX(_, _)
InsertByX(s, p) ==
    IF s = <<>> THEN <<p>>
    ELSE IF LessByX(p, s[Len(s)])
         THEN Append(InsertByX(SubSeq(s, 1, Len(s) - 1), p), s[Len(s)])
         ELSE Append(s, p)

RECURSIVE SortByX(_)
SortByX(s) ==
    IF s = <<>> THEN <<>>
    ELSE InsertByX(SortByX(SubSeq(s, 1, Len(s) - 1)), s[Len(s)])

\* The threshold check: fewer points than k.
NotEnough(n, kk) == n < kk

----------------------------------------------------------------------------
(* The run of main as a state machine *)

\* What a finished run showed: how it ended and the secret it printed
\* (<<>> when none was printed).
Outcome == [status |-> status, secret |-> secret]

\* The fields of one run before its first step.
FreshRun ==
    /\ pc = "start"
    /\ k = 0
    /\ order = <<>>
    /\ points = <<>>
    /\ pointsToUse = <<>>
    /\ i = 0
    /\ secretRat = RatSetInt(0)
    /\ result = <<>>
    /\ status = "running"
    /\ secret = <<>>

Init ==
    /\ \E ke \in KeysEntries, S \in KeySets :
         \E sh \in [S -> Contents] : doc = [keys |-> ke, shares |-> sh]
    /\ FreshRun
    /\ run = 1
    /\ firstOutcome = <<>>
    /\ poly = <<>>

\* Lines 85-92: k is read from the "keys" object; unmarshalling an absent
\* entry (or one that is no object with an integer k) is an error, an
\* object without "k" leaves K = 0.
ParseKeys ==
    /\ pc = "start"
    /\ IF doc.keys.kind = "absent"
       THEN /\ status' = "KeysError"
            /\ pc' = "exit"
            /\ k' = k
       ELSE /\ status' = status
            /\ pc' = "decode"
            /\ k' = doc.keys.k
    /\ UNCHANGED <<doc, order, points, pointsToUse, i, secretRat, result,
                   secret, run, firstOutcome, poly>>

\* Lines 96-130: one pass of the range loop, on any record not yet visited
\* (the iteration order of a Go map is not specified).  doc.shares holds
\* the entries of rawData other than "keys", which the loop passes over.
DecodeOne ==
    /\ pc = "decode"
    /\ \E key \in DOMAIN doc.shares :
         /\ \A n \in 1..Len(order) : order[n] # key
         /\ LET d == DecodeTable[key, doc.shares[key]]
            IN  /\ order' = Append(order, key)
                /\ points' = IF d.kind = "point" THEN Append(points, d.pt)
                             ELSE points
                /\ status' = d.status
                /\ pc' = IF d.kind = "fatal" THEN "exit" ELSE "decode"
    /\ UNCHANGED <<doc, k, pointsToUse, i, secretRat, result, secret, run,
                   firstOutcome, poly>>

\* Lines 132-141 and the entry of lagrangeInterpolateAtZero (lines 23-32):
\* the sort, the threshold check, the slice points[:k] (which panics on a
\* negative k; k above len(points) does not pass the check) and the call.
SelectPoints ==
    /\ pc = "decode"
    /\ Len(order) = Cardinality(DOMAIN doc.shares)
    /\ points' = SortByX(points)
    /\ IF NotEnough(Len(points), k)
       THEN /\ status' = "InsufficientShares"
            /\ pc' = "exit"
            /\ pointsToUse' = pointsToUse
       ELSE IF k < 0 \/ k > Len(points)
       THEN /\ status' = "PanicSlice"
            /\ pc' = "exit"
            /\ pointsToUse' = pointsToUse
       ELSE /\ status' = status
            /\ pc' = "engine"
            /\ pointsToUse' = SubSeq(points', 1, k)
    /\ i' = 0
    /\ secretRat' = RatSetInt(0)
    /\ UNCHANGED <<doc, k, order, result, secret, run, firstOutcome, poly>>

\* Lines 35-58: one pass of the outer loop of lagrangeInterpolateAtZero.
EngineTerm ==
    /\ pc = "engine"
    /\ i < Len(pointsToUse)
    /\ LET s == EngineStep(pointsToUse, i, secretRat)
       IN  IF s.panic
           THEN /\ status' = "PanicDivZero"
                /\ pc' = "exit"
                /\ UNCHANGED <<i, secretRat>>
           ELSE /\ secretRat' = s.total
                /\ i' = i + 1
                /\ UNCHANGED <<status, pc>>
    /\ UNCHANGED <<doc, k, order, points, pointsToUse, result, secret, run,
                   firstOutcome, poly>>

\* Lines 60-65: the integer check and the return of the numerator.
EngineReturn ==
    /\ pc = "engine"
    /\ i = Len(pointsToUse)
    /\ IF IntegerCheck(secretRat)
       THEN /\ result' = <<RatNum(secretRat)>>
            /\ pc' = "print"
            /\ status' = status
       ELSE /\ result' = result
            /\ pc' = "exit"
            /\ status' = "NonIntegerResult"
    /\ UNCHANGED <<doc, k, order, points, pointsToUse, i, secretRat, secret,
                   run, firstOutcome, poly>>

\* Lines 146-149: the secret is printed.
PrintSecret ==
    /\ pc = "print"
    /\ secret' = result
    /\ status' = "ok"
    /\ pc' = "exit"
    /\ UNCHANGED <<doc, k, order, points, pointsToUse, i, secretRat, result,
                   run, firstOutcome, poly>>

\* The program is run once more on the same document.
RunAgain ==
    /\ pc = "exit"
    /\ run = 1
    /\ run' = 2
    /\ firstOutcome' = <<Outcome>>
    /\ pc' = "start"
    /\ k' = 0
    /\ order' = <<>>
    /\ points' = <<>>
    /\ pointsToUse' = <<>>
    /\ i' = 0
    /\ secretRat' = RatSetInt(0)
    /\ result' = <<>>
    /\ status' = "running"
    /\ secret' = <<>>
    /\ UNCHANGED <<doc, poly>>

Next ==
    \/ ParseKeys
    \/ DecodeOne
    \/ SelectPoints
    \/ EngineTerm
    \/ EngineReturn
    \/ PrintSecret
    \/ RunAgain

Spec == Init /\ [][Next]_vars

----------------------------------------------------------------------------
(* Direct calls of lagrangeInterpolateAtZero on k points *)

RECURSIVE Power(_, _)
Power(x, n) == IF n = 0 THEN 1 ELSE x * Power(x, n - 1)

\* The polynomial coef[1] + coef[2] x + ... + coef[n] x^(n-1) at x.
RECURSIVE EvalFrom(_, _, _)
EvalFrom(coef, x, m) ==
    IF m > Len(coef) THEN 0
    ELSE coef[m] * Power(x, m - 1) + EvalFrom(coef, x, m + 1)

\* The callers' inputs: a polynomial with integer coefficients, pairwise
\* distinct x in ascending order, and optionally one y moved off the
\* polynomial by one (tamper = 0: none).
Polynomials ==
    UNION { [coef : [1..n -> (0 - 1)..MaxCoef],
             xs : { f \in [1..n -> 1..MaxX] :
                      \A a \in 1..n, b \in 1..n : a < b => f[a] < f[b] },
             tamper : 0..n] : n \in 1..MaxPts }

SamplePoints(p) ==
    [n \in 1..Len(p.xs) |->
        [X |-> p.xs[n],
         Y |-> EvalFrom(p.coef, p.xs[n], 1)
                 + (IF p.tamper = n THEN 1 ELSE 0)]]

InitEngine ==
    /\ poly \in { <<p>> : p \in Polynomials }
    /\ pointsToUse = SamplePoints(poly[1])
    /\ points = pointsToUse
    /\ k = Len(pointsToUse)
    /\ doc = [keys |-> [kind |-> "k", k |-> k], shares |-> <<>>]
    /\ order = <<>>
    /\ pc = "engine"
    /\ i = 0
    /\ secretRat = RatSetInt(0)
    /\ result = <<>>
    /\ status = "running"
    /\ secret = <<>>
    /\ run = 1
    /\ firstOutcome = <<>>

NextEngine ==
    \/ EngineTerm
    \/ EngineReturn

SpecEngine == InitEngine /\ [][NextEngine]_vars

----------------------------------------------------------------------------
(* The run as a function of the document and of the visiting order *)

\* The outer loop of the engine from pass ii on.
RECURSIVE EngineTotalFrom(_, _, _)
EngineTotalFrom(pts, ii, total) ==
    IF ii >= Len(pts) THEN [panic |-> FALSE, total |-> total]
    ELSE LET s == EngineStep(pts, ii, total)
         IN  IF s.panic THEN s ELSE EngineTotalFrom(pts, ii + 1, s.total)

EngineTotal(pts) == EngineTotalFrom(pts, 0, RatSetInt(0))

\* The range loop over the keys of `keys`, in that order, up to the first
\* fatal record.
RECURSIVE DecodeFold(_, _, _)
DecodeFold(keys, shares, pts) ==
    IF keys = <<>> THEN [points |-> pts, status |-> "running"]
    ELSE LET d == DecodeTable[Head(keys), shares[Head(keys)]]
         IN  IF d.kind = "fatal" THEN [points |-> pts, status |-> d.status]
             ELSE DecodeFold(Tail(keys), shares,
                             IF d.kind = "point" THEN Append(pts, d.pt)
                             ELSE pts)

\* How main ends for a "keys" entry and the result of the range loop.
RunOutcome(ke, dec) ==
    LET none   == <<>>
        sorted == SortByX(dec.points)
        kk     == ke.k
    IN  IF ke.kind = "absent" THEN [status |-> "KeysError", secret |-> none]
        ELSE IF dec.status # "running"
        THEN [status |-> dec.status, secret |-> none]
        ELSE IF NotEnough(Len(sorted), kk)
        THEN [status |-> "InsufficientShares", secret |-> none]
        ELSE IF kk < 0 \/ kk > Len(sorted)
        THEN [status |-> "PanicSlice", secret |-> none]
        ELSE LET e == EngineTotal(SubSeq(sorted, 1, kk))
             IN  IF e.panic
                 THEN [status |-> "PanicDivZero", secret |-> none]
                 ELSE IF IntegerCheck(e.total)
                 THEN [status |-> "ok", secret |-> <<RatNum(e.total)>>]
                 ELSE [status |-> "NonIntegerResult", secret |-> none]

----------------------------------------------------------------------------
(* Properties *)

\* The engine was called in this run.
EngineCalled ==
    \/ pc \in {"engine", "print"}
    \/ status \in {"ok", "NonIntegerResult", "PanicDivZero"}

\* C1 (round trip): when the k points handed to the engine are the values,
\* at pairwise distinct x, of a polynomial with integer coefficients and
\* constant term S, the engine returns exactly S, for every k.
C1_RoundTrip ==
    (pc \in {"print", "exit"} /\ poly # <<>> /\ poly[1].tamper = 0)
        => result = <<poly[1].coef[1]>>

\* C2 (integrity check): a secret is reported only when the exact total of
\* the k terms, in lowest terms, has denominator 1, and it is then that
\* numerator; a total that is no integer ends the run with
\* NonIntegerResult and no secret.
C2_IntegrityCheck ==
    LET e == EngineTotal(pointsToUse)
    IN  /\ secret # <<>> =>
             /\ EngineCalled
             /\ ~e.panic
             /\ e.total.den = 1
             /\ secret = <<e.total.num>>
        /\ (pc = "exit" /\ EngineCalled /\ ~e.panic) =>
             IF e.total.den = 1
             THEN status = "ok" /\ secret = <<e.total.num>>
             ELSE status = "NonIntegerResult" /\ secret = <<>>

\* C2's case: a run on two points whose total is a half has ended with
\* NonIntegerResult.
C2_Witness ==
    /\ pc = "exit"
    /\ status = "NonIntegerResult"
    /\ secret = <<>>
    /\ Len(pointsToUse) = 2
    /\ EngineTotal(pointsToUse).total.den = 2

\* What the range loop has decoded so far, in the order of the visits.
Decoded == DecodeFold(order, doc.shares, <<>>)

\* The number of places of the sequence s that hold p.
RECURSIVE Count(_, _)
Count(s, p) ==
    IF s = <<>> THEN 0
    ELSE (IF Head(s) = p THEN 1 ELSE 0) + Count(Tail(s), p)

Ascending(s) ==
    \A a \in 1..Len(s), b \in 1..Len(s) : a < b => s[a].X <= s[b].X

\* sel holds points of all, and every point of all with an x below the
\* largest x of sel is in sel as often as in all.
SmallestOf(sel, all) ==
    /\ \A n \in 1..Len(sel) : Count(sel, sel[n]) <= Count(all, sel[n])
    /\ \A n \in 1..Len(all) :
         (\E m \in 1..Len(sel) : all[n].X < sel[m].X)
             => Count(sel, all[n]) = Count(all, all[n])

\* The range loop has visited every record and none was fatal.
DecodingDone ==
    /\ pc \notin {"start", "decode"}
    /\ doc.keys.kind # "absent"
    /\ Decoded.status = "running"

\* C3 (threshold precondition): the engine never runs on fewer than k
\* points: it is called with exactly k points, the k decoded points of
\* smallest x in ascending order; with fewer than k decoded points the run
\* ends with InsufficientShares, no secret, and no call of the engine.
\* (A negative k ends the run in the slice points[:k] before the call.)
C3_Threshold ==
    LET dec == Decoded
    IN  /\ EngineCalled =>
             /\ Len(pointsToUse) = k
             /\ k = doc.keys.k
             /\ Ascending(pointsToUse)
             /\ SmallestOf(pointsToUse, dec.points)
        /\ (DecodingDone /\ Len(dec.points) < k) =>
             /\ status = "InsufficientShares"
             /\ secret = <<>>
             /\ ~EngineCalled
        /\ (DecodingDone /\ Len(dec.points) >= k /\ k >= 0) => EngineCalled
        /\ status = "InsufficientShares" => Len(dec.points) < k

\* C3's case: two points were decoded, the larger x first, and the engine
\* was called with k = 1.
C3_Witness ==
    /\ pc = "engine"
    /\ k = 1
    /\ Len(Decoded.points) = 2
    /\ Decoded.points[1].X > Decoded.points[2].X
    /\ pointsToUse = <<Decoded.points[2]>>

\* C4 (no division by zero): the points handed to the engine have pairwise
\* distinct x, and no quotient has a zero divisor.
C4_DistinctX ==
    /\ pc = "engine" =>
         \A a \in 1..Len(pointsToUse), b \in 1..Len(pointsToUse) :
            a # b => pointsToUse[a].X # pointsToUse[b].X
    /\ status # "PanicDivZero"

\* C5 (determinism): a second run on the same document ends as the first
\* did, with the same secret or the same kind of failure, whatever the
\* order the records are visited in.
C5_Deterministic ==
    (run = 2 /\ pc = "exit") => Outcome = firstOutcome[1]

\* A base the decoder must reject: no integer, or an integer below 2.
MalformedBase(rec) == ~Atoi(rec.base).ok \/ Atoi(rec.base).val < 2

\* Every character of the digit string is a digit of base b.
AllDigits(value, b) ==
    \A n \in 1..Len(value) : DigitVal(value[n], b) < b

\* A digit string the decoder must reject in its base: empty, or holding a
\* character that is no digit of the base.
MalformedDigits(rec) ==
    /\ ~MalformedBase(rec)
    /\ rec.value = <<>> \/ ~AllDigits(rec.value, Atoi(rec.base).val)

\* C6 (content errors are fatal): a record with a malformed base or a
\* malformed digit string ends the run without a secret, wherever its x
\* stands among the others.  Stated for the records under a key that is an
\* integer (a record under another key is skipped before it is read, C7)
\* in a document whose k is at least 1 (C10).
C6_ContentFatal ==
    (/\ pc = "exit"
     /\ doc.keys.k >= 1
     /\ \E key \in DOMAIN doc.shares :
          /\ ParseInt(key).ok
          /\ doc.shares[key].obj
          /\ MalformedBase(doc.shares[key]) \/ MalformedDigits(doc.shares[key]))
        => (status # "ok" /\ secret = <<>>)

\* The key is an integer x.
KeyParses(key) == ParseInt(key).ok

\* C7 (index errors are recoverable): a record whose key is no integer is
\* skipped: during the range loop and at the end of the run, the run
\* stands where a run on the document without those records stands.
C7_IndexSkip ==
    LET reduced == DecodeFold(SelectSeq(order, KeyParses), doc.shares, <<>>)
    IN  /\ pc = "decode" =>
             (points = reduced.points /\ status = reduced.status)
        /\ pc = "exit" => Outcome = RunOutcome(doc.keys, reduced)

\* C7's case: a record was skipped, and the run that has as many records
\* as k asks for ended with InsufficientShares.
C7_Witness ==
    /\ pc = "exit"
    /\ status = "InsufficientShares"
    /\ \E n \in 1..Len(order) : ~KeyParses(order[n])
    /\ Len(order) = k
    /\ Len(points) = k - 1

\* C8 (base validation): decoding a record whose base is no integer or is
\* an integer below 2 fails on the base: the record gives no point, the
\* run ends there and reports no secret.
C8_BaseValidation ==
    \A n \in 1..Len(order) :
       (/\ KeyParses(order[n])
        /\ doc.shares[order[n]].obj
        /\ MalformedBase(doc.shares[order[n]]))
          => /\ DecodeShare(order[n], doc.shares[order[n]]).kind = "fatal"
             /\ n = Len(order)
             /\ pc = "exit"
             /\ status \in {"InvalidBase", "PanicBase"}
             /\ secret = <<>>

\* The positional value of a digit string: acc = acc * base + digit.
RECURSIVE Positional(_, _, _)
Positional(value, b, acc) ==
    IF value = <<>> THEN acc
    ELSE Positional(Tail(value), b, acc * b + DigitVal(Head(value), b))

\* C9 (digit validation): in a base from 2 to 36, a record gives a point
\* only when its digit string is not empty and holds digits of the base
\* only, y being its positional value; any other digit string, one with a
\* sign included, ends the run with InvalidDigit.
C9_DigitValidation ==
    \A n \in 1..Len(order) :
       LET rec == doc.shares[order[n]]
           b   == Atoi(rec.base).val
           d   == DecodeShare(order[n], rec)
       IN  (/\ KeyParses(order[n])
            /\ rec.obj
            /\ Atoi(rec.base).ok
            /\ 2 <= b /\ b <= 36)
              => IF rec.value # <<>> /\ AllDigits(rec.value, b)
                 THEN d.kind = "point" /\ d.pt.Y = Positional(rec.value, b, 0)
                 ELSE /\ d.kind = "fatal"
                      /\ n = Len(order)
                      /\ status = "InvalidDigit"

\* C10 (threshold invariant): a secret is reported only for a document
\* whose "keys" object holds a k of at least 1.
C10_ThresholdAtLeastOne ==
    secret # <<>> => (doc.keys.kind = "k" /\ doc.keys.k >= 1)

====
